---- MODULE Spec2Model ----
(***************************************************************************)
(* Midi2Chiptune (src/rust/midi2chiptune/src/main.rs): the MIDI reader     *)
(* (read_vlq, read_midi_header, parse_midi_event, read_midi_track,         *)
(* read_midi_file) and the note assembler (events_to_notes) as a state     *)
(* machine over a byte buffer, and the synthesizer (generate_square_wave,  *)
(* generate_triangle_wave, generate_noise, note_to_waveform).              *)
(*                                                                         *)
(* Bytes are naturals 0..255, a buffer is a sequence of bytes, and         *)
(* positions are 0-based as in the source: data[pos] is At(data, pos).     *)
(***************************************************************************)
EXTENDS Integers, Sequences, FiniteSets, TLC

VARIABLES
    src,               \* description of the input file the buffer is built from
    data,              \* buffer: the whole file (read_midi_file) or the slice given to read_vlq
    pos,               \* read position
    pc,                \* control point
    format,            \* MidiFile.format
    track_count,       \* MidiFile.track_count
    ticks_per_quarter, \* MidiFile.ticks_per_quarter
    tracks,            \* MidiFile.tracks: the event list of every pushed track
    track_no,          \* iterations of `for _ in 0..track_count` completed
    end_position,      \* read_midi_track: end of the current chunk
    events,            \* read_midi_track: events of the current track
    running_status,    \* read_midi_track: running status of the current track
    delta_time,        \* read_midi_track: delta-time of the last (delta-time, event) pair
    event,             \* read_midi_track: result of the last parse_midi_event
    event_pos,         \* history: position and running status the last parse_midi_event
                       \* was called with
    chunk_ticks,       \* history: sum of ALL delta-times read in the current chunk, and
                       \* that sum at each retained event
    event_ticks,       \* history: for every pushed track, that sum at each of its events
    note_on_events,    \* events_to_notes: pending NoteOn entries
    notes,             \* events_to_notes: emitted notes
    track_idx,         \* events_to_notes: index of the track being walked
    event_idx,         \* events_to_notes: index of the next event of that track
    current_tick,      \* events_to_notes: tick counter of the track being walked
    vlq,               \* result of the read_vlq call on `data`
    samples,           \* generate_noise: number of samples to produce
    shift,             \* generate_noise: the shift register
    waveform,          \* the samples produced by the generator called last
    calls,             \* history: the generator calls made so far and what they returned
    result             \* note_to_waveform: the buffer returned

\* the state of the synthesizer (generators, note_to_waveform)
SynthVars == <<samples, shift, waveform, calls, result>>

\* the state of the reader and of the note assembler
MidiVars == <<data, pos, format, track_count, ticks_per_quarter, tracks, track_no,
              end_position, events, running_status, delta_time, event, event_pos,
              chunk_ticks, event_ticks, note_on_events, notes, track_idx, event_idx,
              current_tick, vlq>>

vars == <<src, data, pos, pc, format, track_count, ticks_per_quarter, tracks,
          track_no, end_position, events, running_status, delta_time, event,
          event_pos,          chunk_ticks, event_ticks, note_on_events, notes, track_idx,
          event_idx, current_tick, vlq, samples, shift, waveform, calls, result>>

(***************************************************************************)
(* Bounds of the input space.                                              *)
(***************************************************************************)
MaxMsgs == 3
MaxTracks == 2
MaxVlqLen == 5

(***************************************************************************)
(* Byte and word helpers.                                                  *)
(***************************************************************************)
At(d, p) == d[p + 1]

\* &d[p..p+4] == tag, for a position where the slice is in range
TagAt(d, p, tag) == \A i \in 0..3 : At(d, p + i) = tag[i + 1]

MThd == <<77, 84, 104, 100>>
MTrk == <<77, 84, 114, 107>>

\* u16::from_be_bytes([data[*pos], data[*pos + 1]])
BeU16(d, p) == At(d, p) * 256 + At(d, p + 1)

\* u32::from_be_bytes of 4 bytes (the inputs of the model keep it below 2^31)
BeU32(d, p) == ((At(d, p) * 256 + At(d, p + 1)) * 256 + At(d, p + 2)) * 256 + At(d, p + 3)

(***************************************************************************)
(* read_vlq.  The accumulator is a u32; it is kept as two 16-bit halves    *)
(* [hi, lo] so that the shift by 7 keeps its 32-bit width:                 *)
(*   value = (value << 7) | (byte & 0x7F).                                 *)
(***************************************************************************)
\* mutant of Shl7Or: the continuation bit is not masked off
Shl7OrUnmasked(v, byte) ==
    [lo |-> (v.lo * 128 + byte) % 65536,
     hi |-> (v.hi * 128 + ((v.lo * 128 + byte) \div 65536)) % 65536]

Shl7Or(v, byte) ==
    [lo |-> ((v.lo * 128) % 65536) + (byte % 128),
     hi |-> (v.hi * 128 + (v.lo * 128) \div 65536) % 65536]

\* mutant of ReadVlqLoop: the terminating byte is read but not consumed
RECURSIVE ReadVlqLoopPeeks(_, _, _)
ReadVlqLoopPeeks(d, p, value) ==
    IF p >= Len(d)
    THEN [ok |-> FALSE, value |-> value, pos |-> p]
    ELSE LET byte == At(d, p)
             v == Shl7Or(value, byte)
         IN  IF byte \div 128 = 0
             THEN [ok |-> TRUE, value |-> v, pos |-> p]
             ELSE ReadVlqLoopPeeks(d, p + 1, v)

RECURSIVE ReadVlqLoop(_, _, _)
ReadVlqLoop(d, p, value) ==
    IF p >= Len(d)
    THEN [ok |-> FALSE, value |-> value, pos |-> p]
    ELSE LET byte == At(d, p)
             v == Shl7Or(value, byte)
         IN  IF byte \div 128 = 0
             THEN [ok |-> TRUE, value |-> v, pos |-> p + 1]
             ELSE ReadVlqLoop(d, p + 1, v)

ReadVlq(d, p) == ReadVlqLoop(d, p, [hi |-> 0, lo |-> 0])

\* a u32 as a number (`length as usize`, the `time` fields)
U32(v) == v.hi * 65536 + v.lo

(***************************************************************************)
(* MidiEvent                                                               *)
(***************************************************************************)
NoteOn(c, n, v, t) == [type |-> "NoteOn", channel |-> c, note |-> n, velocity |-> v, time |-> t]
NoteOff(c, n, t) == [type |-> "NoteOff", channel |-> c, note |-> n, time |-> t]
ProgramChange(c, p, t) == [type |-> "ProgramChange", channel |-> c, program |-> p, time |-> t]
Unknown == [type |-> "Unknown"]

(***************************************************************************)
(* parse_midi_event: the event, the new position and the new running       *)
(* status.                                                                 *)
(***************************************************************************)
Ret(e, p, rs) == [event |-> e, pos |-> p, running_status |-> rs]

\* mutant of SkipOther: every other status skips two data bytes
SkipOtherTwoAlways(d, p, status) ==
    IF status = 255
    THEN IF p >= Len(d)
         THEN p
         ELSE LET r == ReadVlq(d, p + 1)
              IN  IF r.ok THEN r.pos + U32(r.value) ELSE r.pos
    ELSE IF status >= 128
         THEN IF p < Len(d)
              THEN IF p + 1 < Len(d) THEN p + 2 ELSE p + 1
              ELSE p
         ELSE p

\* the `_` arm: meta events and the other statuses are skipped
SkipOther(d, p, status) ==
    IF status = 255
    THEN IF p >= Len(d)
         THEN p
         ELSE LET r == ReadVlq(d, p + 1)
              IN  IF r.ok THEN r.pos + U32(r.value) ELSE r.pos
    ELSE IF status >= 128
         THEN IF p < Len(d)
              THEN IF (status \div 32) * 32 # 192 /\ (status \div 32) * 32 # 208
                        /\ p + 1 < Len(d)
                   THEN p + 2
                   ELSE p + 1
              ELSE p
         ELSE p

\* `if first_byte >= 0x80 { *running_status = first_byte; *pos += 1; }`
StatusOf(first_byte, rs0) == IF first_byte >= 128 THEN first_byte ELSE rs0

\* mutant of PosAfterStatus: the first byte is always consumed as a status byte
PosAlwaysAdvances(first_byte, p0) == p0 + 1

PosAfterStatus(first_byte, p0) == IF first_byte >= 128 THEN p0 + 1 ELSE p0

\* mutant of DecodeNoteOn: velocity 0 is not re-tagged
DecodeNoteOnNoRetag(channel, note, velocity, dt) == NoteOn(channel, note, velocity, dt)

\* the 0x90 arm once both data bytes are read
DecodeNoteOn(channel, note, velocity, dt) ==
    IF velocity = 0
    THEN NoteOff(channel, note, dt)
    ELSE NoteOn(channel, note, velocity, dt)

ParseMidiEvent(d, p0, rs0, dt) ==
    IF p0 >= Len(d)
    THEN Ret(Unknown, p0, rs0)
    ELSE LET first_byte == At(d, p0)
             status == StatusOf(first_byte, rs0)
             p == PosAfterStatus(first_byte, p0)
             event_type == (status \div 16) * 16
             channel == status % 16
         IN  CASE event_type = 144 ->
                    IF p + 1 >= Len(d)
                    THEN Ret(Unknown, p, status)
                    ELSE Ret(DecodeNoteOn(channel, At(d, p), At(d, p + 1), dt), p + 2, status)
               [] event_type = 128 ->
                    IF p + 1 >= Len(d)
                    THEN Ret(Unknown, p, status)
                    ELSE Ret(NoteOff(channel, At(d, p), dt), p + 2, status)
               [] event_type = 192 ->
                    IF p >= Len(d)
                    THEN Ret(Unknown, p, status)
                    ELSE Ret(ProgramChange(channel, At(d, p), dt), p + 1, status)
               [] OTHER -> Ret(Unknown, SkipOther(d, p, status), status)

(***************************************************************************)
(* Input files.  A file is described by its track count and its chunks; a  *)
(* chunk by its tag, its messages and the number of bytes cut off the end  *)
(* of its last message (the length in its header is that of the bytes      *)
(* that remain); a message by its delta-time byte, its status byte (0:     *)
(* omitted, the message relies on running status) and its data bytes.      *)
(***************************************************************************)
Msg(d, st, dat) == [delta |-> d, status |-> st, data |-> dat]

Msgs ==
    { Msg(0, 144, <<60, 64>>),     \* NoteOn ch0 note 60 vel 64
      Msg(10, 0, <<60, 100>>),     \* running status: note 60 vel 100
      Msg(10, 0, <<60, 0>>),       \* running status: note 60 vel 0
      Msg(10, 128, <<60, 64>>),    \* NoteOff ch0 note 60
      Msg(10, 176, <<7, 100>>),    \* control change
      Msg(10, 192, <<5>>),         \* program change
      Msg(0, 255, <<47, 0>>),      \* meta: end of track
      Msg(0, 144, <<128, 64>>) }   \* NoteOn whose note byte has the high bit set

MsgBytes(m) == <<m.delta>> \o (IF m.status = 0 THEN <<>> ELSE <<m.status>>) \o m.data

RECURSIVE BodyBytes(_)
BodyBytes(ms) == IF ms = <<>> THEN <<>> ELSE MsgBytes(Head(ms)) \o BodyBytes(Tail(ms))

Chunk(tag, msgs, cut) == [tag |-> tag, msgs |-> msgs, cut |-> cut]

ChunkBytes(c) ==
    LET all == BodyBytes(c.msgs)
        body == SubSeq(all, 1, Len(all) - c.cut)
    IN  c.tag \o <<0, 0, 0, Len(body)>> \o body

RECURSIVE ChunksBytes(_)
ChunksBytes(cs) == IF cs = <<>> THEN <<>> ELSE ChunkBytes(Head(cs)) \o ChunksBytes(Tail(cs))

\* header chunk: format 1, `count` tracks, 480 ticks per quarter note
FileBytes(f) == MThd \o <<0, 0, 0, 6, 0, 1, 0, f.count, 1, 224>> \o ChunksBytes(f.chunks)

SeqsUpTo(S, n) == UNION {[1..m -> S] : m \in 0..n}

\* the cut points that split a message list into n consecutive chunks
Cuts(len, n) ==
    {c \in [0..n -> 0..len] :
        /\ c[0] = 0 /\ c[n] = len
        /\ \A i \in 1..n : c[i - 1] <= c[i]}

Split(ms, c, n) == [i \in 1..n |-> Chunk(MTrk, SubSeq(ms, c[i - 1] + 1, c[i]), 0)]

\* a file of n chunks tagged "MTrk" with exact lengths, holding the messages ms
File(ms, c, n) == [count |-> n, chunks |-> Split(ms, c, n)]

(***************************************************************************)
(* Time.  ticks_to_seconds computes tick / ticks_per_quarter * 60 / tempo  *)
(* in f64; seconds are kept exactly, as a fraction num / den whose         *)
(* denominator ticks_per_quarter * tempo is the same in every value of a   *)
(* run (it is positive in every file of the model).                        *)
(***************************************************************************)
Tempo == 120

TicksToSeconds(tick, tpq) == [num |-> tick * 60, den |-> tpq * Tempo]

\* end_time - start_time, two values of the same denominator
Minus(a, b) == [num |-> a.num - b.num, den |-> a.den]

Positive(x) == x.num * x.den > 0

(***************************************************************************)
(* The pending-note map of events_to_notes, HashMap<(u8,u8),(u8,f64)>, as  *)
(* the set of its entries.                                                 *)
(***************************************************************************)
Entry(key, velocity, start_time) == [key |-> key, velocity |-> velocity, start_time |-> start_time]

\* mutant of Insert: an entry already there is kept (entry().or_insert)
InsertKeepsFirst(m, key, velocity, start_time) ==
    IF \E e \in m : e.key = key
    THEN m
    ELSE m \cup {Entry(key, velocity, start_time)}

\* HashMap::insert: the entry of the key is replaced
Insert(m, key, velocity, start_time) ==
    {e \in m : e.key # key} \cup {Entry(key, velocity, start_time)}

\* HashMap::remove: the map without the key
Remove(m, key) == {e \in m : e.key # key}

Note(n, c, st, dur, v) ==
    [midi_note |-> n, channel |-> c, start_time |-> st, duration |-> dur, velocity |-> v]

(***************************************************************************)
(* Initial states: the buffer of a file, before read_midi_header.          *)
(***************************************************************************)
NoEvent == [type |-> "None"]
NoVlq == [ok |-> FALSE, value |-> [hi |-> 0, lo |-> 0], pos |-> 0]

Locals0 ==
    /\ format = 0
    /\ track_count = 0
    /\ ticks_per_quarter = 0
    /\ tracks = <<>>
    /\ track_no = 0
    /\ end_position = 0
    /\ events = <<>>
    /\ running_status = 0
    /\ delta_time = 0
    /\ event = NoEvent
    /\ event_pos = [pos |-> 0, running_status |-> 0]
    /\ chunk_ticks = [sum |-> 0, at |-> <<>>]
    /\ event_ticks = <<>>
    /\ note_on_events = {}
    /\ notes = <<>>
    /\ track_idx = 0
    /\ event_idx = 0
    /\ current_tick = 0
    /\ vlq = NoVlq
    /\ samples = 0
    /\ shift = 0
    /\ waveform = <<>>
    /\ calls = <<>>
    /\ result = <<>>

InitFile(f) ==
    /\ src = f
    /\ data = FileBytes(f)
    /\ pos = 0
    /\ pc = "header"
    /\ Locals0

Init ==
    \E n \in 1..MaxTracks :
        \E ms \in SeqsUpTo(Msgs, MaxMsgs) :
            \E c \in Cuts(Len(ms), n) : InitFile(File(ms, c, n))

(***************************************************************************)
(* read_midi_file                                                          *)
(***************************************************************************)
\* read_midi_header(&buffer, &mut pos)?: a slice or an index out of range panics
ReadMidiHeader ==
    /\ pc = "header"
    /\ IF pos + 4 > Len(data)
       THEN pc' = "panic" /\ UNCHANGED <<pos, format, track_count, ticks_per_quarter>>
       ELSE IF ~TagAt(data, pos, MThd)
       THEN pc' = "error" /\ UNCHANGED <<pos, format, track_count, ticks_per_quarter>>
       ELSE IF pos + 8 > Len(data)
       THEN pc' = "panic" /\ pos' = pos + 4
            /\ UNCHANGED <<format, track_count, ticks_per_quarter>>
       ELSE IF BeU32(data, pos + 4) # 6
       THEN pc' = "error" /\ pos' = pos + 8
            /\ UNCHANGED <<format, track_count, ticks_per_quarter>>
       ELSE IF pos + 14 > Len(data)
       THEN pc' = "panic" /\ pos' = pos + 8
            /\ UNCHANGED <<format, track_count, ticks_per_quarter>>
       ELSE /\ format' = BeU16(data, pos + 8)
            /\ track_count' = BeU16(data, pos + 10)
            /\ ticks_per_quarter' = BeU16(data, pos + 12)
            /\ pos' = pos + 14
            /\ pc' = "tracks"
    /\ UNCHANGED <<src, data, tracks, track_no, end_position, events, running_status,
                   delta_time, event, event_pos, chunk_ticks, event_ticks,
                   note_on_events, notes, track_idx, event_idx, current_tick, vlq>>
    /\ UNCHANGED SynthVars

\* read_midi_track up to its event loop: the "MTrk" check and the chunk length
TrackStart(d, p) ==
    IF p + 4 > Len(d) \/ ~TagAt(d, p, MTrk)
    THEN [result |-> "Err", pos |-> p, end_position |-> 0]
    ELSE IF p + 8 > Len(d)
    THEN \* read_be_u32 indexes past the end of the buffer
         [result |-> "panic", pos |-> p + 4, end_position |-> 0]
    ELSE [result |-> "Ok", pos |-> p + 8, end_position |-> p + 8 + BeU32(d, p + 4)]

\* one iteration of `while *pos < end_position && *pos < data.len()`
EventStep(d, p, evs, rs) ==
    LET r == ReadVlq(d, p)
    IN  IF ~r.ok
        THEN [break |-> TRUE, pos |-> r.pos, events |-> evs, running_status |-> rs,
              delta_time |-> 0, event |-> Unknown, event_pos |-> r.pos]
        ELSE LET e == ParseMidiEvent(d, r.pos, rs, U32(r.value))
             IN  [break |-> FALSE, pos |-> e.pos,
                  events |-> IF e.event # Unknown THEN Append(evs, e.event) ELSE evs,
                  running_status |-> e.running_status,
                  delta_time |-> U32(r.value), event |-> e.event, event_pos |-> r.pos]

RECURSIVE EventLoop(_, _, _, _, _)
EventLoop(d, p, end, evs, rs) ==
    IF p < end /\ p < Len(d)
    THEN LET s == EventStep(d, p, evs, rs)
         IN  IF s.break THEN s.events
             ELSE EventLoop(d, s.pos, end, s.events, s.running_status)
    ELSE evs

\* the events of the track read_midi_track returns for the chunk at p
ReadMidiTrackEvents(d, p) ==
    LET t == TrackStart(d, p)
    IN  IF t.result = "Ok" THEN EventLoop(d, t.pos, t.end_position, <<>>, 0) ELSE <<>>

\* one iteration of `for _ in 0..track_count`, up to the event loop of
\* read_midi_track
ReadMidiTrack ==
    /\ pc = "tracks"
    /\ track_no < track_count
    /\ LET t == TrackStart(data, pos)
       IN  /\ pos' = t.pos
           /\ IF t.result = "Err"
              THEN \* the track is not pushed
                   /\ track_no' = track_no + 1
                   /\ UNCHANGED <<pc, end_position, events, running_status, chunk_ticks,
                                  event, event_pos>>
              ELSE IF t.result = "panic"
              THEN /\ pc' = "panic"
                   /\ UNCHANGED <<track_no, end_position, events, running_status,
                                  chunk_ticks, event, event_pos>>
              ELSE /\ end_position' = t.end_position
                   /\ events' = <<>>
                   /\ running_status' = 0
                   /\ chunk_ticks' = [sum |-> 0, at |-> <<>>]
                   /\ event' = NoEvent
                   /\ event_pos' = [pos |-> t.pos, running_status |-> 0]
                   /\ pc' = "events"
                   /\ UNCHANGED track_no
    /\ UNCHANGED <<src, data, format, track_count, ticks_per_quarter, tracks, delta_time,
                   event_ticks, note_on_events, notes, track_idx, event_idx,
                   current_tick, vlq>>
    /\ UNCHANGED SynthVars

\* the track is returned and pushed
PushTrack ==
    /\ tracks' = Append(tracks, events)
    /\ event_ticks' = Append(event_ticks, chunk_ticks.at)
    /\ track_no' = track_no + 1
    /\ pc' = "tracks"

TrackEvent ==
    /\ pc = "events"
    /\ pos < end_position /\ pos < Len(data)
    /\ LET s == EventStep(data, pos, events, running_status)
       IN  /\ pos' = s.pos
           /\ IF s.break
              THEN /\ PushTrack
                   /\ UNCHANGED <<events, running_status, delta_time, event, event_pos,
                                  chunk_ticks>>
              ELSE /\ events' = s.events
                   /\ running_status' = s.running_status
                   /\ delta_time' = s.delta_time
                   /\ event' = s.event
                   /\ event_pos' = [pos |-> s.event_pos, running_status |-> running_status]
                   /\ chunk_ticks' =
                          LET sum == chunk_ticks.sum + s.delta_time
                          IN  [sum |-> sum,
                               at |-> IF s.event # Unknown
                                      THEN Append(chunk_ticks.at, sum)
                                      ELSE chunk_ticks.at]
                   /\ UNCHANGED <<tracks, track_no, pc, event_ticks>>
    /\ UNCHANGED <<src, data, format, track_count, ticks_per_quarter, end_position,
                   note_on_events, notes, track_idx, event_idx, current_tick, vlq>>
    /\ UNCHANGED SynthVars

\* the event loop is over: Ok(MidiTrack { events })
TrackEnd ==
    /\ pc = "events"
    /\ ~(pos < end_position /\ pos < Len(data))
    /\ PushTrack
    /\ UNCHANGED <<src, data, pos, format, track_count, ticks_per_quarter, end_position,
                   events, running_status, delta_time, event, event_pos, chunk_ticks,
                   note_on_events, notes, track_idx, event_idx, current_tick, vlq>>
    /\ UNCHANGED SynthVars

\* Ok(MidiFile { .. }); events_to_notes starts on it
FileRead ==
    /\ pc = "tracks"
    /\ track_no = track_count
    /\ pc' = "notes"
    /\ note_on_events' = {}
    /\ notes' = <<>>
    /\ track_idx' = 1
    /\ event_idx' = 1
    /\ current_tick' = 0
    /\ UNCHANGED <<src, data, pos, format, track_count, ticks_per_quarter, tracks,
                   track_no, end_position, events, running_status, delta_time, event,
                   event_pos, chunk_ticks, event_ticks, vlq>>
    /\ UNCHANGED SynthVars

(***************************************************************************)
(* events_to_notes: one action per arm of the match, on the next event of  *)
(* the track being walked.                                                 *)
(***************************************************************************)
AtEvent == /\ pc = "notes"
           /\ track_idx <= Len(tracks)
           /\ event_idx <= Len(tracks[track_idx])

ThisEvent == tracks[track_idx][event_idx]

ParserVars == <<src, data, pos, pc, format, track_count, ticks_per_quarter, tracks,
                track_no, end_position, events, running_status, delta_time, event,
                event_pos, chunk_ticks, event_ticks, vlq>>

OnNoteOn ==
    /\ AtEvent
    /\ ThisEvent.type = "NoteOn"
    /\ LET e == ThisEvent
           tick == current_tick + e.time
       IN  /\ current_tick' = tick
           /\ note_on_events' = Insert(note_on_events, <<e.channel, e.note>>, e.velocity,
                                       TicksToSeconds(tick, ticks_per_quarter))
    /\ event_idx' = event_idx + 1
    /\ UNCHANGED <<notes, track_idx>>
    /\ UNCHANGED ParserVars
    /\ UNCHANGED SynthVars

\* mutant of Emit: the note is pushed whatever its duration
EmitAnyDuration(ns, m, key, end_time) ==
    IF \E p \in m : p.key = key
    THEN LET p == CHOOSE q \in m : q.key = key
         IN  Append(ns, Note(key[2], key[1], p.start_time, Minus(end_time, p.start_time),
                             p.velocity))
    ELSE ns

\* the notes after a NoteOff of `key` ending at `end_time`
Emit(ns, m, key, end_time) ==
    IF \E p \in m : p.key = key
    THEN LET p == CHOOSE q \in m : q.key = key
             duration == Minus(end_time, p.start_time)
         IN  IF Positive(duration)
             THEN Append(ns, Note(key[2], key[1], p.start_time, duration, p.velocity))
             ELSE ns
    ELSE ns

OnNoteOff ==
    /\ AtEvent
    /\ ThisEvent.type = "NoteOff"
    /\ LET e == ThisEvent
           tick == current_tick + e.time
           key == <<e.channel, e.note>>
       IN  /\ current_tick' = tick
           /\ notes' = Emit(notes, note_on_events, key,
                            TicksToSeconds(tick, ticks_per_quarter))
           /\ note_on_events' = Remove(note_on_events, key)
    /\ event_idx' = event_idx + 1
    /\ UNCHANGED track_idx
    /\ UNCHANGED ParserVars
    /\ UNCHANGED SynthVars

\* `_ => {}`
OnOtherEvent ==
    /\ AtEvent
    /\ ThisEvent.type \notin {"NoteOn", "NoteOff"}
    /\ event_idx' = event_idx + 1
    /\ UNCHANGED <<note_on_events, notes, track_idx, current_tick>>
    /\ UNCHANGED ParserVars
    /\ UNCHANGED SynthVars

\* the events of the track are exhausted: the next track starts at tick 0
NextTrack ==
    /\ pc = "notes"
    /\ track_idx <= Len(tracks)
    /\ event_idx > Len(tracks[track_idx])
    /\ track_idx' = track_idx + 1
    /\ event_idx' = 1
    /\ current_tick' = 0
    /\ UNCHANGED <<note_on_events, notes>>
    /\ UNCHANGED ParserVars
    /\ UNCHANGED SynthVars

\* the tracks are exhausted: `notes` is returned
NotesReturned ==
    /\ pc = "notes"
    /\ track_idx > Len(tracks)
    /\ pc' = "done"
    /\ UNCHANGED <<src, data, pos, format, track_count, ticks_per_quarter, tracks,
                   track_no, end_position, events, running_status, delta_time, event,
                   event_pos, chunk_ticks, event_ticks, note_on_events, notes,
                   track_idx, event_idx, current_tick, vlq>>
    /\ UNCHANGED SynthVars

Next ==
    \/ ReadMidiHeader
    \/ ReadMidiTrack
    \/ TrackEvent
    \/ TrackEnd
    \/ FileRead
    \/ OnNoteOn
    \/ OnNoteOff
    \/ OnOtherEvent
    \/ NextTrack
    \/ NotesReturned

Spec == Init /\ [][Next]_vars

(***************************************************************************)
(* Files with one defect: a chunk whose tag is not "MTrk", or a chunk      *)
(* whose last message lacks its final byte.                                *)
(***************************************************************************)
BadTag == <<77, 84, 114, 120>>

WithBadTag(f, i) ==
    [f EXCEPT !.chunks[i] = Chunk(BadTag, f.chunks[i].msgs, f.chunks[i].cut)]

WithCut(f, i) ==
    [f EXCEPT !.chunks[i] = Chunk(f.chunks[i].tag, f.chunks[i].msgs, 1)]

InitDefect ==
    \E n \in 1..MaxTracks :
        \E ms \in SeqsUpTo(Msgs, MaxMsgs) :
            \E c \in Cuts(Len(ms), n) :
                \E i \in 1..n :
                    \/ InitFile(WithBadTag(File(ms, c, n), i))
                    \/ /\ c[i - 1] < c[i]
                       /\ InitFile(WithCut(File(ms, c, n), i))

SpecDefect == InitDefect /\ [][Next]_vars

(***************************************************************************)
(* read_vlq on its own: any buffer over VlqBytes, from any position.       *)
(***************************************************************************)
VlqBytes == {0, 127, 129, 255}

InitVlq ==
    \E d \in SeqsUpTo(VlqBytes, MaxVlqLen) :
        \E p \in 0..Len(d) :
            /\ src = [start |-> p]
            /\ data = d
            /\ pos = p
            /\ pc = "vlq"
            /\ Locals0

CallReadVlq ==
    /\ pc = "vlq"
    /\ vlq' = ReadVlq(data, pos)
    /\ pos' = vlq'.pos
    /\ pc' = "vlq_done"
    /\ UNCHANGED <<src, data, format, track_count, ticks_per_quarter, tracks, track_no,
                   end_position, events, running_status, delta_time, event, event_pos,
                   chunk_ticks, event_ticks, note_on_events, notes, track_idx,
                   event_idx, current_tick>>
    /\ UNCHANGED SynthVars

NextVlq == CallReadVlq

SpecVlq == InitVlq /\ [][NextVlq]_vars

(***************************************************************************)
(* Arbitrary buffers: the bytes of a file with a header chunk whose tag or *)
(* length is wrong, or the first `keep` bytes of a file (a buffer of any   *)
(* length, cut inside the header, a chunk tag, a chunk length or an        *)
(* event).                                                                 *)
(***************************************************************************)
BadHeaderTag == <<77, 84, 104, 120>>

HeaderBytes(tag, length, count) == tag \o <<0, 0, 0, length, 0, 1, 0, count, 1, 224>>

Prefix(d, keep) == SubSeq(d, 1, keep)

InitBytes(f, d) ==
    /\ src = f
    /\ data = d
    /\ pos = 0
    /\ pc = "header"
    /\ Locals0

InitBuffer ==
    \E n \in 1..MaxTracks :
        \E ms \in SeqsUpTo(Msgs, MaxMsgs) :
            \E c \in Cuts(Len(ms), n) :
                LET f == File(ms, c, n)
                    body == ChunksBytes(f.chunks)
                IN  \/ \E keep \in 0..Len(FileBytes(f)) :
                           InitBytes(f @@ [keep |-> keep],
                                     Prefix(FileBytes(f), keep))
                    \/ InitBytes(f @@ [header |-> "tag"],
                                 HeaderBytes(BadHeaderTag, 6, n) \o body)
                    \/ InitBytes(f @@ [header |-> "length"],
                                 HeaderBytes(MThd, 5, n) \o body)

SpecBuffer == InitBuffer /\ [][Next]_vars

(***************************************************************************)
(* One-track files over the statuses parse_midi_event does not decode      *)
(* (polyphonic pressure, control change, channel pressure, pitch bend,     *)
(* system messages), each followed by the data bytes the `_` arm skips,    *)
(* among note and program-change messages.                                 *)
(***************************************************************************)
StatusMsgs ==
    { Msg(0, 144, <<60, 64>>),     \* NoteOn
      Msg(10, 128, <<60, 64>>),    \* NoteOff
      Msg(5, 192, <<5>>),          \* program change
      Msg(5, 160, <<60, 1>>),      \* 0xA0 polyphonic pressure
      Msg(5, 176, <<7, 100>>),     \* 0xB0 control change
      Msg(5, 208, <<9>>),          \* 0xD0 channel pressure
      Msg(5, 223, <<9>>),          \* 0xDF channel pressure, channel 15
      Msg(5, 224, <<0, 64>>),      \* 0xE0 pitch bend
      Msg(5, 240, <<1, 2>>),       \* 0xF0
      Msg(5, 254, <<1, 2>>),       \* 0xFE
      Msg(5, 0, <<7, 1>>) }        \* running status

InitStatus ==
    \E ms \in SeqsUpTo(StatusMsgs, MaxMsgs) :
        \E c \in Cuts(Len(ms), 1) : InitFile(File(ms, c, 1))

SpecStatus == InitStatus /\ [][Next]_vars

(***************************************************************************)
(* The synthesizer.  Seconds are fractions num / den with den > 0 (the     *)
(* model takes multiples of 1/4 s, for which     the f64 products with an  *)
(* integer sample rate are exact); frequencies and sample rates are        *)
(* integers.  A square-wave or noise sample is the integer 1 or -1, a      *)
(* triangle sample a fraction of denominator sample_rate.                  *)
(***************************************************************************)
\* k quarters of a second
Seconds(k) == [num |-> k, den |-> 4]

\* mutant of Samples: the product is rounded up
SamplesRoundedUp(sample_rate, duration) ==
    IF duration.num <= 0 THEN 0
    ELSE (sample_rate * duration.num + duration.den - 1) \div duration.den

\* `(sample_rate as f64 * duration) as usize`: truncated, and 0 when negative
Samples(sample_rate, duration) ==
    IF duration.num <= 0 THEN 0 ELSE (sample_rate * duration.num) \div duration.den

\* DutyCycle::value
DutyValue(duty) ==
    CASE duty = "Duty12_5" -> [num |-> 1, den |-> 8]
      [] duty = "Duty25" -> [num |-> 1, den |-> 4]
      [] duty = "Duty50" -> [num |-> 1, den |-> 2]
      [] duty = "Duty75" -> [num |-> 3, den |-> 4]

\* phase = (t * frequency) % 1.0 with t = i / sample_rate, in units of 1 / sample_rate
Phase(i, frequency, sample_rate) == (i * frequency) % sample_rate

GenerateSquareWave(frequency, duty, sample_rate, duration) ==
    [k \in 1..Samples(sample_rate, duration) |->
        IF Phase(k - 1, frequency, sample_rate) * DutyValue(duty).den
               < DutyValue(duty).num * sample_rate
        THEN 1 ELSE -1]

GenerateTriangleWave(frequency, sample_rate, duration) ==
    [k \in 1..Samples(sample_rate, duration) |->
        LET phase == Phase(k - 1, frequency, sample_rate)
        IN  IF 2 * phase < sample_rate
            THEN [num |-> 4 * phase - sample_rate, den |-> sample_rate]
            ELSE [num |-> 3 * sample_rate - 4 * phase, den |-> sample_rate]]

\* mutant of ShiftRegister: the feedback bit enters at bit 15
ShiftRegisterBit15(register, is_short) ==
    LET bit0 == register % 2
        bit1 == IF is_short THEN (register \div 64) % 2 ELSE (register \div 2) % 2
        feedback == (bit0 + bit1) % 2
    IN  ((register \div 2) + feedback * 32768) % 65536

\* generate_noise, one sample: the register after the step
ShiftRegister(register, is_short) ==
    LET bit0 == register % 2
        bit1 == IF is_short THEN (register \div 64) % 2 ELSE (register \div 2) % 2
        feedback == (bit0 + bit1) % 2
    IN  ((register \div 2) + feedback * 16384) % 65536

\* generate_noise, one sample: `if bit0 == 1 { 1.0 } else { -1.0 }`
NoiseSample(register) == IF register % 2 = 1 THEN 1 ELSE -1

RECURSIVE NoiseRun(_, _, _, _)
NoiseRun(register, is_short, n, w) ==
    IF n = 0 THEN w
    ELSE NoiseRun(ShiftRegister(register, is_short), is_short, n - 1,
                  Append(w, NoiseSample(register)))

GenerateNoise(is_short, sample_rate, duration) ==
    NoiseRun(1, is_short, Samples(sample_rate, duration), <<>>)

\* 440.0 * 2^((midi_note - 69) / 12), for the notes a whole number of octaves from A4
MidiNoteToFrequency(midi_note) ==
    CASE midi_note = 45 -> 110
      [] midi_note = 57 -> 220
      [] midi_note = 69 -> 440
      [] midi_note = 81 -> 880

Zero == [num |-> 0, den |-> 1]

\* waveform[i - start_sample] * volume, volume = velocity / 127 * 0.7
Scaled(channel, sample, velocity) ==
    IF channel % 4 = 2
    THEN [num |-> sample.num * velocity * 7, den |-> sample.den * 1270]
    ELSE [num |-> sample * velocity * 7, den |-> 1270]

Min(a, b) == IF a <= b THEN a ELSE b

\* mutant of EndSample: the end of the note is not clipped to the buffer
EndSampleUnclipped(start_sample, note_samples, total_samples) == start_sample + note_samples

EndSample(start_sample, note_samples, total_samples) ==
    Min(start_sample + note_samples, total_samples)

\* `for i in start_sample..end_sample`: a write at an index out of range panics
RECURSIVE PlaceLoop(_, _, _, _, _, _)
PlaceLoop(buffer, i, end_sample, start_sample, w, note) ==
    IF i >= end_sample
    THEN [panic |-> FALSE, result |-> buffer]
    ELSE IF i - start_sample < Len(w)
    THEN IF i >= Len(buffer)
         THEN [panic |-> TRUE, result |-> buffer]
         ELSE PlaceLoop([buffer EXCEPT ![i + 1] =
                            Scaled(note.channel, w[i - start_sample + 1], note.velocity)],
                        i + 1, end_sample, start_sample, w, note)
    ELSE PlaceLoop(buffer, i + 1, end_sample, start_sample, w, note)

NoteWaveform(note, sample_rate) ==
    LET frequency == MidiNoteToFrequency(note.midi_note)
    IN  CASE note.channel % 4 = 0 ->
                 GenerateSquareWave(frequency, "Duty50", sample_rate, note.duration)
          [] note.channel % 4 = 1 ->
                 GenerateSquareWave(frequency, "Duty25", sample_rate, note.duration)
          [] note.channel % 4 = 2 ->
                 GenerateTriangleWave(frequency, sample_rate, note.duration)
          [] OTHER -> GenerateNoise(FALSE, sample_rate, note.duration)

NoteToWaveform(note, sample_rate, total_duration) ==
    LET start_sample == Samples(sample_rate, note.start_time)
        note_samples == Samples(sample_rate, note.duration)
        total_samples == Samples(sample_rate, total_duration)
        w == NoteWaveform(note, sample_rate)
        end_sample == EndSample(start_sample, note_samples, total_samples)
    IN  PlaceLoop([k \in 1..total_samples |-> Zero], start_sample, end_sample,
                  start_sample, w, note)

(***************************************************************************)
(* note_to_waveform on its own: any note, also one that starts or ends     *)
(* beyond the end of the buffer.                                           *)
(***************************************************************************)
MaxTime == 3

SampleRates == {4, 6}

InitPlace ==
    \E channel \in 0..4 : \E velocity \in {0, 100} : \E midi_note \in {57, 69} :
        \E start \in -1..MaxTime : \E dur \in 0..MaxTime : \E total \in 0..MaxTime :
            \E rate \in SampleRates :
                /\ src = [note |-> Note(midi_note, channel, Seconds(start), Seconds(dur),
                                        velocity),
                          sample_rate |-> rate,
                          total_duration |-> Seconds(total)]
                /\ data = <<>>
                /\ pos = 0
                /\ pc = "note"
                /\ Locals0

CallNoteToWaveform ==
    /\ pc = "note"
    /\ LET r == NoteToWaveform(src.note, src.sample_rate, src.total_duration)
       IN  /\ result' = r.result
           /\ pc' = IF r.panic THEN "panic" ELSE "placed"
    /\ waveform' = NoteWaveform(src.note, src.sample_rate)
    /\ UNCHANGED <<src, samples, shift, calls>>
    /\ UNCHANGED MidiVars

NextPlace == CallNoteToWaveform

SpecPlace == InitPlace /\ [][NextPlace]_vars

(***************************************************************************)
(* The three generators on their own.  src.requests lists the arguments of *)
(* the calls to make, one after the other; `calls` collects what they      *)
(* return.  generate_square_wave and generate_triangle_wave map a function *)
(* of the index over 0..samples; the closure of generate_noise carries the *)
(* register from one sample to the next, one NoiseStep per sample.         *)
(***************************************************************************)
Frequencies == {1, 3, 440}

DutyCycles == {"Duty12_5", "Duty25", "Duty50", "Duty75"}

\* generator, frequency and duty cycle (or mode) of a call
Generators ==
    {[generator |-> "square", frequency |-> f, duty |-> d] :
        f \in Frequencies, d \in DutyCycles}
    \cup {[generator |-> "triangle", frequency |-> f] : f \in Frequencies}
    \cup {[generator |-> "noise", is_short |-> b] : b \in BOOLEAN}

\* sample rate and duration of a call: quarters of a second at a small rate,
\* and the 0.1 s at 44100 Hz of test_waveform_generation
Durations ==
    {[sample_rate |-> r, duration |-> Seconds(k)] : r \in SampleRates, k \in 0..MaxTime}
    \cup {[sample_rate |-> 44100, duration |-> [num |-> 1, den |-> 10]]}

InitRequests(requests) ==
    /\ src = [requests |-> requests]
    /\ data = <<>>
    /\ pos = 0
    /\ pc = "generate"
    /\ Locals0

InitGenerate == \E g \in Generators : \E d \in Durations : InitRequests(<<g @@ d>>)

\* the arguments of the next call
Request == src.requests[Len(calls) + 1]

Calling(generator) ==
    /\ pc = "generate"
    /\ Len(calls) < Len(src.requests)
    /\ Request.generator = generator

CallGenerateSquareWave ==
    /\ Calling("square")
    /\ waveform' = GenerateSquareWave(Request.frequency, Request.duty, Request.sample_rate,
                                      Request.duration)
    /\ calls' = Append(calls, waveform')
    /\ UNCHANGED <<src, pc, samples, shift, result>>
    /\ UNCHANGED MidiVars

CallGenerateTriangleWave ==
    /\ Calling("triangle")
    /\ waveform' = GenerateTriangleWave(Request.frequency, Request.sample_rate,
                                        Request.duration)
    /\ calls' = Append(calls, waveform')
    /\ UNCHANGED <<src, pc, samples, shift, result>>
    /\ UNCHANGED MidiVars

\* mutant of CallGenerateNoise: the register is kept from one call to the next
CallGenerateNoiseSharedRegister ==
    /\ Calling("noise")
    /\ samples' = Samples(Request.sample_rate, Request.duration)
    /\ shift' = IF shift = 0 THEN 1 ELSE shift
    /\ waveform' = <<>>
    /\ pc' = "noise"
    /\ UNCHANGED <<src, calls, result>>
    /\ UNCHANGED MidiVars

\* generate_noise is entered: `let samples = ..; let mut shift = 1u16;`
CallGenerateNoise ==
    /\ Calling("noise")
    /\ samples' = Samples(Request.sample_rate, Request.duration)
    /\ shift' = 1
    /\ waveform' = <<>>
    /\ pc' = "noise"
    /\ UNCHANGED <<src, calls, result>>
    /\ UNCHANGED MidiVars

\* one call of the closure
NoiseStep ==
    /\ pc = "noise"
    /\ Len(waveform) < samples
    /\ waveform' = Append(waveform, NoiseSample(shift))
    /\ shift' = ShiftRegister(shift, Request.is_short)
    /\ UNCHANGED <<src, pc, samples, calls, result>>
    /\ UNCHANGED MidiVars

\* `.collect()`: the samples are returned
NoiseReturn ==
    /\ pc = "noise"
    /\ Len(waveform) = samples
    /\ calls' = Append(calls, waveform)
    /\ pc' = "generate"
    /\ UNCHANGED <<src, samples, shift, waveform, result>>
    /\ UNCHANGED MidiVars

NextNoise ==
    \/ CallGenerateNoise
    \/ NoiseStep
    \/ NoiseReturn

NextGenerate ==
    \/ CallGenerateSquareWave
    \/ CallGenerateTriangleWave
    \/ NextNoise

SpecGenerate == InitGenerate /\ [][NextGenerate]_vars

(***************************************************************************)
(* The noise-channel notes of a piece: up to MaxCalls calls of             *)
(* generate_noise in any order, one per note.                              *)
(***************************************************************************)
MaxCalls == 3

NoiseRequests ==
    {[generator |-> "noise", is_short |-> b, sample_rate |-> 4, duration |-> Seconds(k)] :
        b \in BOOLEAN, k \in 0..MaxTime}

InitNoise ==
    \E n \in 1..MaxCalls : \E requests \in [1..n -> NoiseRequests] : InitRequests(requests)

SpecNoise == InitNoise /\ [][NextNoise]_vars

(***************************************************************************)
(* Files whose NoteOff messages come at the tick of the NoteOn (delta-time *)
(* 0), later, or without a NoteOn.                                         *)
(***************************************************************************)
AssembleMsgs ==
    { Msg(0, 144, <<60, 64>>),     \* NoteOn note 60
      Msg(10, 144, <<60, 64>>),    \* NoteOn note 60, 10 ticks later
      Msg(0, 128, <<60, 0>>),      \* NoteOff note 60 at the same tick
      Msg(10, 128, <<60, 0>>),     \* NoteOff note 60, 10 ticks later
      Msg(0, 128, <<62, 0>>),      \* NoteOff note 62
      Msg(0, 192, <<5>>) }         \* program change

InitAssemble ==
    \E n \in 1..MaxTracks :
        \E ms \in SeqsUpTo(AssembleMsgs, MaxMsgs) :
            \E c \in Cuts(Len(ms), n) : InitFile(File(ms, c, n))

SpecAssemble == InitAssemble /\ [][Next]_vars

(***************************************************************************)
(* Any byte content: a valid header announcing two tracks and one chunk    *)
(* tagged "MTrk" whose body is a byte of DeltaBytes followed by any        *)
(* sequence of bytes of TrackBytes, up to MaxBody bytes in all.  The       *)
(* scheduling is that of sequential code: a step is taken whenever one is  *)
(* possible.                                                               *)
(***************************************************************************)
MaxBody == 4

\* 0x00, 0x81 (a delta-time that continues into the next byte)
DeltaBytes == {0, 129}

\* 0x00, 0x05, 0x90, 0xC0, 0xFF
TrackBytes == {0, 5, 144, 192, 255}

Bodies ==
    {<<>>} \cup
    UNION {{<<first>> \o rest : first \in DeltaBytes, rest \in [1..m -> TrackBytes]} :
              m \in 0..(MaxBody - 1)}

InitAnyBytes ==
    \E body \in Bodies :
        InitBytes([count |-> 2, body |-> body],
                  HeaderBytes(MThd, 6, 2) \o MTrk \o <<0, 0, 0, Len(body)>> \o body)

SpecBytes == InitAnyBytes /\ [][Next]_vars /\ WF_vars(Next)

(***************************************************************************)
(* One long call of generate_noise in either mode: MaxClocks samples, more *)
(* than the 2^15 - 1 states a 15-bit register can go through.              *)
(***************************************************************************)
MaxClocks == 32768

InitLfsr ==
    \E b \in BOOLEAN :
        InitRequests(<<[generator |-> "noise", is_short |-> b, sample_rate |-> MaxClocks,
                        duration |-> Seconds(4)]>>)

SpecLfsr == InitLfsr /\ [][NextNoise]_vars

(***************************************************************************)
(* Properties                                                              *)
(***************************************************************************)
IsNote(e) == e.type \in {"NoteOn", "NoteOff"}

\* a NoteOn and a later NoteOff of the note's key and velocity in one track
PairedInOneTrack(nt) ==
    \E t \in 1..Len(tracks) :
        \E i, j \in 1..Len(tracks[t]) :
            /\ i < j
            /\ tracks[t][i].type = "NoteOn"
            /\ tracks[t][j].type = "NoteOff"
            /\ tracks[t][i].channel = nt.channel /\ tracks[t][i].note = nt.midi_note
            /\ tracks[t][j].channel = nt.channel /\ tracks[t][j].note = nt.midi_note
            /\ tracks[t][i].velocity = nt.velocity

\* C1: note pairing is per track: every emitted Note comes from a NoteOn and
\* a later NoteOff of its (channel, note) in the SAME track; a NoteOn left
\* pending by an earlier track never makes a Note with a NoteOff of a later one.
C1_PairingPerTrack ==
    pc \in {"notes", "done"} => \A k \in 1..Len(notes) : PairedInOneTrack(notes[k])

\* the event events_to_notes has just interpreted
Interpreted == tracks[track_idx][event_idx - 1]

JustInterpreted ==
    /\ pc = "notes"
    /\ track_idx <= Len(tracks)
    /\ event_idx > 1

\* C2: the tick at which a NoteOn or NoteOff is interpreted is the sum of the
\* delta-times of ALL (delta-time, event) pairs of its chunk up to and
\* including it, the pairs decoded as Unknown and skipped included.
C2_TickCountsSkippedDeltas ==
    (JustInterpreted /\ IsNote(Interpreted))
        => current_tick = event_ticks[track_idx][event_idx - 1]

RECURSIVE SumTimes(_, _)
SumTimes(evs, k) == IF k = 0 THEN 0 ELSE evs[k].time + SumTimes(evs, k - 1)

\* C3: in events_to_notes the tick counter of a track is the sum of the `time`
\* fields of ALL the events of the list interpreted so far, NoteOn, NoteOff and
\* ProgramChange alike.
C3_TickCountsEveryEvent ==
    (pc = "notes" /\ track_idx <= Len(tracks))
        => current_tick = SumTimes(tracks[track_idx], event_idx - 1)

\* every message carries its status byte and no chunk is cut: the chunks of
\* the file are parsed message by message
Aligned(f) ==
    \A i \in 1..Len(f.chunks) :
        /\ f.chunks[i].cut = 0
        /\ \A k \in 1..Len(f.chunks[i].msgs) : f.chunks[i].msgs[k].status # 0

WellFormedChunks(f) == {i \in 1..Len(f.chunks) : f.chunks[i].tag = MTrk}

\* C4: a chunk whose tag is not "MTrk" drops that single track: every
\* well-formed chunk of the file, also one after the bad chunk, is parsed
\* and pushed.
C4_BadTrackDropsOnlyItself ==
    (pc = "done" /\ Aligned(src)) => Len(tracks) = Cardinality(WellFormedChunks(src))

\* C5: while and after a track is read, the read position is neither past
\* the end of its chunk (chunk start + chunk length) nor past the buffer end.
C5_PosWithinChunk ==
    /\ pc = "events" => pos <= end_position
    /\ pc \in {"events", "tracks"} => pos <= Len(data)

\* the only non-empty track is t
OnlyTrack(t) ==
    /\ t \in 1..Len(tracks)
    /\ \A o \in 1..Len(tracks) : o # t => tracks[o] = <<>>

\* NoteOn(k) @ t0, NoteOn(k) @ t1, NoteOff(k) @ t2 with t0 < t1 < t2
Overwritten(evs) ==
    /\ Len(evs) = 3
    /\ evs[1].type = "NoteOn" /\ evs[2].type = "NoteOn" /\ evs[3].type = "NoteOff"
    /\ evs[2].channel = evs[1].channel /\ evs[2].note = evs[1].note
    /\ evs[3].channel = evs[1].channel /\ evs[3].note = evs[1].note
    /\ evs[2].time > 0 /\ evs[3].time > 0

OverwrittenNote(evs) ==
    Note(evs[2].note, evs[2].channel,
         TicksToSeconds(evs[1].time + evs[2].time, ticks_per_quarter),
         TicksToSeconds(evs[3].time, ticks_per_quarter),
         evs[2].velocity)

\* C6: the pending-note map holds at most one NoteOn per (channel, note) at
\* every point of events_to_notes, and a track NoteOn(k) @ t0, NoteOn(k) @ t1,
\* NoteOff(k) @ t2 (t0 < t1 < t2) yields exactly one Note, which starts at t1,
\* lasts t2 - t1 and has the velocity of the second NoteOn.
C6_LastWriterWins ==
    /\ \A e1, e2 \in note_on_events : e1.key = e2.key => e1 = e2
    /\ \A t \in 1..Len(tracks) :
           (pc = "done" /\ OnlyTrack(t) /\ Overwritten(tracks[t]))
               => notes = <<OverwrittenNote(tracks[t])>>

C6_Witness ==
    /\ pc = "done"
    /\ OnlyTrack(1) /\ Overwritten(tracks[1])
    /\ tracks[1][1].velocity # tracks[1][2].velocity
    /\ notes = <<OverwrittenNote(tracks[1])>>

(***************************************************************************)
(* Running status                                                          *)
(***************************************************************************)
\* the buffer with byte b inserted at position p
InsertAt(d, p, b) == SubSeq(d, 1, p) \o <<b>> \o SubSeq(d, p + 1, Len(d))

\* a (delta-time, event) pair has just been decoded in the current track
StepDone == pc = "events" /\ event # NoEvent

\* statuses of the channel messages that parse_midi_event reads two data bytes for
TwoDataBytes(status) == (status \div 16) * 16 \in {128, 144, 160, 176, 224}

\* the messages with every omitted status byte written out
RECURSIVE Repeated(_, _)
Repeated(ms, last) ==
    IF ms = <<>> THEN <<>>
    ELSE LET st == IF Head(ms).status = 0 THEN last ELSE Head(ms).status
         IN  <<Msg(Head(ms).delta, st, Head(ms).data)>> \o Repeated(Tail(ms), st)

\* every message that omits its status byte follows a channel message of two
\* data bytes
RECURSIVE OmitsProperly(_, _)
OmitsProperly(ms, last) ==
    IF ms = <<>> THEN TRUE
    ELSE LET st == IF Head(ms).status = 0 THEN last ELSE Head(ms).status
         IN  /\ Head(ms).status = 0 => TwoDataBytes(last)
             /\ OmitsProperly(Tail(ms), st)

OmitsSomewhere(ms) == \E k \in 1..Len(ms) : ms[k].status = 0

RepeatedChunk(c) == Chunk(c.tag, Repeated(c.msgs, 0), c.cut)

\* C7: a first byte with the high bit clear is decoded with the running status
\* of the track and is the first data byte, exactly as if the status byte were
\* repeated before it; a first byte with the high bit set becomes the running
\* status; a track that omits repeated status bytes decodes to the event list
\* of the same track with them written out; and every track starts without a
\* running status.
C7_RunningStatus ==
    /\ (StepDone /\ event_pos.pos < Len(data)) =>
           LET p == event_pos.pos
               rs == event_pos.running_status
               b == At(data, p)
               full == ParseMidiEvent(InsertAt(data, p, rs), p, rs, delta_time)
           IN  IF b >= 128
               THEN running_status = b
               ELSE /\ running_status = rs
                    /\ IsNote(event) => event.note = b
                    /\ rs >= 128 =>
                           /\ full.event = event
                           /\ full.pos = pos + 1
                           /\ full.running_status = running_status
    /\ (pc = "done" /\ \A i \in 1..Len(src.chunks) : OmitsProperly(src.chunks[i].msgs, 0)) =>
           /\ Len(tracks) = Len(src.chunks)
           /\ \A i \in 1..Len(src.chunks) :
                  tracks[i] = ReadMidiTrackEvents(ChunkBytes(RepeatedChunk(src.chunks[i])), 0)
    /\ (pc = "events" /\ event = NoEvent) => running_status = 0

C7_Witness ==
    /\ pc = "done"
    /\ Len(src.chunks) = 2
    /\ \A i \in 1..2 : OmitsProperly(src.chunks[i].msgs, 0)
    /\ OmitsSomewhere(src.chunks[1].msgs)
    /\ Len(tracks[1]) = 2 /\ Len(tracks[2]) = 1
    /\ tracks[1][2].type = "NoteOff"
    /\ tracks[1] = ReadMidiTrackEvents(ChunkBytes(RepeatedChunk(src.chunks[1])), 0)

(***************************************************************************)
(* read_vlq                                                                *)
(***************************************************************************)
\* the k-th 7-bit group of a u32, group 0 the least significant; group 4 is
\* bits 28..31
Group7(v, k) ==
    CASE k = 0 -> v.lo % 128
      [] k = 1 -> (v.lo \div 128) % 128
      [] k = 2 -> (v.lo \div 16384) + (v.hi % 32) * 4
      [] k = 3 -> (v.hi \div 32) % 128
      [] k = 4 -> v.hi \div 4096
      [] OTHER -> 0

Terminated == \E i \in src.start..(Len(data) - 1) : At(data, i) < 128

Terminator ==
    CHOOSE i \in src.start..(Len(data) - 1) :
        /\ At(data, i) < 128
        /\ \A j \in src.start..(i - 1) : At(data, j) >= 128

\* the low 7 bits of the k-th consumed byte, counted from the terminating byte
Consumed7(k) == IF k < pos - src.start THEN At(data, pos - 1 - k) % 128 ELSE 0

VlqExamples ==
    /\ (src.start = 0 /\ data = <<129, 0>>) => vlq.value = [hi |-> 0, lo |-> 128]
    /\ (src.start = 0 /\ data = <<0>>) => vlq.value = [hi |-> 0, lo |-> 0]
    /\ (src.start = 0 /\ data = <<255, 255, 127>>) => vlq.value = [hi |-> 31, lo |-> 65535]

\* C8 (as amended): read_vlq consumes the bytes up to and including the first
\* byte whose high bit is clear, leaves pos just after it and returns the low
\* 32 bits of the concatenation of the low 7 bits of the consumed bytes (the
\* concatenation itself when at most four bytes are consumed); if the buffer
\* ends before a terminating byte it fails.
C8_ReadVlqLow32 ==
    pc = "vlq_done" =>
        IF Terminated
        THEN /\ vlq.ok
             /\ pos = Terminator + 1
             /\ \A k \in 0..3 : Group7(vlq.value, k) = Consumed7(k)
             /\ Group7(vlq.value, 4) = Consumed7(4) % 16
             /\ VlqExamples
        ELSE ~vlq.ok

\* C8 (as claimed): the value returned is the concatenation of the low 7 bits
\* of ALL the consumed bytes.
C8_ReadVlqExact ==
    pc = "vlq_done" =>
        IF Terminated
        THEN /\ vlq.ok
             /\ pos = Terminator + 1
             /\ \A k \in 0..(pos - src.start - 1) : Group7(vlq.value, k) = Consumed7(k)
             /\ VlqExamples
        ELSE ~vlq.ok

C8_Witness ==
    /\ pc = "vlq_done"
    /\ src.start = 0
    /\ data = <<255, 255, 255, 255, 127>>
    /\ vlq.ok
    /\ pos = 5
    /\ vlq.value = [hi |-> 65535, lo |-> 65535]

(***************************************************************************)
(* Event fields                                                            *)
(***************************************************************************)
EventInRange(e) ==
    /\ e.channel \in 0..15
    /\ IsNote(e) => e.note \in 0..127
    /\ e.type = "NoteOn" => e.velocity \in 0..127

\* C9: every retained MidiEvent has channel in [0,15], note in [0,127] and
\* velocity in [0,127], and so have midi_note and velocity of every Note.
C9_FieldsInRange ==
    /\ \A k \in 1..Len(events) : EventInRange(events[k])
    /\ \A t \in 1..Len(tracks) : \A k \in 1..Len(tracks[t]) : EventInRange(tracks[t][k])
    /\ \A k \in 1..Len(notes) : notes[k].midi_note \in 0..127 /\ notes[k].velocity \in 0..127

\* a NoteOn message of velocity > 0 followed by a 0x9_ message (its status
\* byte written or omitted) of velocity 0 for the same channel and note, at a
\* delta-time > 0
NoteThenVelocityZero(ms) ==
    /\ Len(ms) = 2
    /\ (ms[1].status \div 16) * 16 = 144
    /\ Len(ms[1].data) = 2 /\ ms[1].data[1] < 128 /\ ms[1].data[2] \in 1..127
    /\ ms[2].status \in {0, ms[1].status}
    /\ ms[2].data = <<ms[1].data[1], 0>>
    /\ ms[2].delta > 0

\* C10: a 0x9_ message is decoded as NoteOff when its velocity byte is 0 and as
\* NoteOn otherwise, for the same channel and note; every retained NoteOn has
\* velocity >= 1; and a track NoteOn(k, vel > 0) followed at delta > 0 by a 0x9_
\* message for k with velocity 0 yields one Note that ends at that message.
C10_VelocityZeroIsNoteOff ==
    /\ \A k \in 1..Len(events) : events[k].type = "NoteOn" => events[k].velocity >= 1
    /\ \A t \in 1..Len(tracks) : \A k \in 1..Len(tracks[t]) :
           tracks[t][k].type = "NoteOn" => tracks[t][k].velocity >= 1
    /\ (StepDone /\ event_pos.pos < Len(data)) =>
           LET q == IF At(data, event_pos.pos) >= 128
                    THEN event_pos.pos + 1 ELSE event_pos.pos
           IN  ((running_status \div 16) * 16 = 144 /\ q + 1 < Len(data)) =>
                   event = IF At(data, q + 1) = 0
                           THEN NoteOff(running_status % 16, At(data, q), delta_time)
                           ELSE NoteOn(running_status % 16, At(data, q), At(data, q + 1),
                                       delta_time)
    /\ (pc = "done" /\ Len(src.chunks) = 1 /\ NoteThenVelocityZero(src.chunks[1].msgs)) =>
           LET ms == src.chunks[1].msgs
           IN  notes = <<Note(ms[1].data[1], ms[1].status % 16,
                              TicksToSeconds(ms[1].delta, ticks_per_quarter),
                              TicksToSeconds(ms[2].delta, ticks_per_quarter),
                              ms[1].data[2])>>

C10_Witness ==
    /\ pc = "done"
    /\ Len(src.chunks) = 1 /\ NoteThenVelocityZero(src.chunks[1].msgs)
    /\ tracks = << <<NoteOn(0, 60, 64, 0), NoteOff(0, 60, 10)>> >>
    /\ Len(notes) = 1
    /\ notes[1].duration = TicksToSeconds(10, ticks_per_quarter)

(***************************************************************************)
(* read_midi_header                                                        *)
(***************************************************************************)
HeaderTagOk == Len(data) >= 4 /\ TagAt(data, 0, MThd)

HeaderLengthOk == Len(data) >= 8 /\ BeU32(data, 4) = 6

\* C11: on a buffer of any length read_midi_header either returns (format,
\* track_count, ticks_per_quarter) decoded big-endian from bytes 8..13 or
\* fails with an error value; it fails exactly when the first 4 bytes are not
\* "MThd" or the length field is not 6, and then no track is parsed.
C11_HeaderReturnsOrFails ==
    pc # "header" =>
        /\ pc = "error" <=> ~(HeaderTagOk /\ HeaderLengthOk)
        /\ pc = "error" => tracks = <<>> /\ track_no = 0 /\ events = <<>>
        /\ pc # "error" =>
               /\ Len(data) >= 14
               /\ pos >= 14
               /\ format = BeU16(data, 8)
               /\ track_count = BeU16(data, 10)
               /\ ticks_per_quarter = BeU16(data, 12)

(***************************************************************************)
(* The statuses parse_midi_event skips                                     *)
(***************************************************************************)
\* a status byte that is not 0x8_, 0x9_, 0xC_ or 0xFF
OtherStatus(status) ==
    /\ status >= 128
    /\ status # 255
    /\ (status \div 16) * 16 \notin {128, 144, 192}

\* channel pressure 0xD_: one data byte; 0xA_, 0xB_, 0xE_, 0xF0..0xFE: two
DataBytes(status) == IF (status \div 16) * 16 = 208 THEN 1 ELSE 2

RECURSIVE Decoded(_)
Decoded(ms) ==
    IF ms = <<>> THEN <<>>
    ELSE IF OtherStatus(Head(ms).status)
    THEN Decoded(Tail(ms))
    ELSE <<Head(ms)>> \o Decoded(Tail(ms))

\* C12: for a status >= 0x80 that is not 0x8_, 0x9_, 0xC_ or 0xFF,
\* parse_midi_event (with the data bytes in the buffer) yields Unknown and
\* advances past exactly one data byte for 0xD_ and exactly two for 0xA_, 0xB_,
\* 0xE_ and 0xF0..0xFE; no such event is retained: a track decodes to the
\* event list of the same track without these messages.
C12_OtherStatusSkipped ==
    /\ (StepDone /\ event_pos.pos < Len(data)) =>
           LET q == IF At(data, event_pos.pos) >= 128
                    THEN event_pos.pos + 1 ELSE event_pos.pos
               st == running_status
           IN  (OtherStatus(st) /\ q + DataBytes(st) <= Len(data)) =>
                   /\ event = Unknown
                   /\ pos = q + DataBytes(st)
    /\ (pc = "done" /\ Aligned(src)) =>
           /\ Len(tracks) = Len(src.chunks)
           /\ \A i \in 1..Len(src.chunks) :
                  tracks[i] = ReadMidiTrackEvents(
                                  ChunkBytes(Chunk(MTrk, Decoded(src.chunks[i].msgs), 0)), 0)

C12_Witness ==
    /\ pc = "done"
    /\ src.chunks[1].msgs = <<Msg(0, 144, <<60, 64>>), Msg(5, 208, <<9>>), Msg(5, 240, <<1, 2>>)>>
    /\ tracks = << <<NoteOn(0, 60, 64, 0)>> >>
    /\ event = Unknown
    /\ pos = Len(data)

(***************************************************************************)
(* note_to_waveform                                                        *)
(***************************************************************************)
\* trunc(t * sample_rate) as a sample count: the n with n <= t * sample_rate < n + 1,
\* and 0 for a negative t
Trunc(t, sample_rate) ==
    IF t.num < 0 THEN 0
    ELSE CHOOSE n \in 0..(sample_rate * t.num) :
             n * t.den <= sample_rate * t.num /\ sample_rate * t.num < (n + 1) * t.den

\* C13: note_to_waveform returns a buffer of exactly
\* trunc(total_duration * sample_rate) entries in which every index outside
\* [start_sample, start_sample + note_samples) is 0.0, and it writes at no
\* index >= total_samples, also for a note that starts or ends beyond the end
\* of the buffer.
C13_PlacementClipped ==
    pc \in {"placed", "panic"} =>
        LET start_sample == Trunc(src.note.start_time, src.sample_rate)
            note_samples == Trunc(src.note.duration, src.sample_rate)
        IN  /\ pc = "placed"
            /\ Len(result) = Trunc(src.total_duration, src.sample_rate)
            /\ \A i \in 0..(Len(result) - 1) :
                   (i < start_sample \/ i >= start_sample + note_samples)
                       => result[i + 1] = Zero

\* a note that starts inside the buffer and ends beyond its end
C13_Witness ==
    /\ pc = "placed"
    /\ Trunc(src.note.start_time, src.sample_rate) \in 1..(Len(result) - 1)
    /\ Trunc(src.note.start_time, src.sample_rate)
           + Trunc(src.note.duration, src.sample_rate) > Len(result)
    /\ result[Len(result)] # Zero
    /\ result[1] = Zero

(***************************************************************************)
(* The generators                                                          *)
(***************************************************************************)
\* C14: generate_square_wave, generate_triangle_wave and generate_noise each
\* return exactly floor(sample_rate * duration) samples (4410 for rate 44100
\* and duration 0.1), and every square-wave and noise sample is +1.0 or -1.0.
C14_SampleCount ==
    \A c \in 1..Len(calls) :
        LET r == src.requests[c]
        IN  /\ Len(calls[c]) = Trunc(r.duration, r.sample_rate)
            /\ (r.sample_rate = 44100 /\ r.duration = [num |-> 1, den |-> 10])
                   => Len(calls[c]) = 4410
            /\ r.generator \in {"square", "noise"} =>
                   \A k \in 1..Len(calls[c]) : calls[c][k] \in {1, -1}

C14_Witness ==
    /\ Len(calls) = 1
    /\ src.requests[1].generator = "noise"
    /\ src.requests[1].sample_rate = 6 /\ src.requests[1].duration = Seconds(3)
    /\ Len(calls[1]) = 4
    /\ calls[1][1] = 1 /\ calls[1][2] = -1

IsPrefix(v, w) == Len(v) <= Len(w) /\ v = SubSeq(w, 1, Len(v))

\* C15: generate_noise restarts the register from seed 1 on every call: two
\* calls with the same is_short return identical sequences when they request
\* the same number of samples, the shorter output is a prefix of the longer
\* one otherwise, whatever the order of the calls and whatever was generated
\* in between.
C15_NoiseRestartsFromSeed ==
    /\ \A c1, c2 \in 1..Len(calls) :
           (src.requests[c1].is_short = src.requests[c2].is_short
                /\ Len(calls[c1]) <= Len(calls[c2]))
               => IsPrefix(calls[c1], calls[c2])
    /\ \A c \in 1..Len(calls) : Len(calls[c]) > 0 => calls[c][1] = NoiseSample(1)

C15_Witness ==
    /\ Len(calls) = 3
    /\ \A c \in 1..3 : ~src.requests[c].is_short
    /\ Len(calls[1]) = 3 /\ Len(calls[2]) = 2 /\ Len(calls[3]) = 3
    /\ calls[1] = calls[3]
    /\ calls[1][1] # calls[1][2]

(***************************************************************************)
(* NoteOff in events_to_notes                                              *)
(***************************************************************************)
\* the pending entries of the key of the NoteOff about to be interpreted
PendingForThis == {e \in note_on_events : e.key = <<ThisEvent.channel, ThisEvent.note>>}

\* C16: every emitted Note has duration > 0.  A NoteOff removes the pending
\* entry of its key and emits at most one Note; at the absolute tick of the
\* pending NoteOn it emits none (and the entry is gone, so that a later
\* NoteOff of the key emits nothing either); without a pending entry it emits
\* nothing and leaves the map unchanged.
C16_NoteOffEmitsPositiveDuration ==
    [][/\ \A k \in 1..Len(notes') : Positive(notes'[k].duration)
       /\ (AtEvent /\ ThisEvent.type = "NoteOff") =>
              /\ note_on_events' = note_on_events \ PendingForThis
              /\ Len(notes') <= Len(notes) + 1
              /\ PendingForThis = {} => notes' = notes /\ note_on_events' = note_on_events
              /\ (\E e \in PendingForThis :
                      e.start_time = TicksToSeconds(current_tick + ThisEvent.time,
                                                    ticks_per_quarter))
                     => notes' = notes]_vars

\* NoteOn, NoteOff at the same tick, NoteOff 10 ticks later: no Note
C16_Witness ==
    /\ pc = "done"
    /\ tracks = << <<NoteOn(0, 60, 64, 0), NoteOff(0, 60, 0), NoteOff(0, 60, 10)>> >>
    /\ notes = <<>>
    /\ note_on_events = {}

(***************************************************************************)
(* Termination of the reader                                               *)
(***************************************************************************)
Stopped == pc \in {"done", "error", "panic"}

\* C17: track parsing terminates: every iteration of the event loop of
\* read_midi_track either leaves the loop or advances the read position by at
\* least one byte (also when parse_midi_event consumes nothing), the position
\* never moves back, read_midi_file makes at most track_count track attempts,
\* and the run ends.
C17_TrackParsingTerminates ==
    /\ [][/\ (pc = "events" /\ pc' = "events") => pos' >= pos + 1
          /\ pos' >= pos
          /\ track_no' \in {track_no, track_no + 1}
          /\ track_no' <= track_count']_vars
    /\ <>Stopped

\* a data byte with no running status set: parse_midi_event consumes nothing,
\* the delta-time byte before it was consumed
C17_Witness ==
    /\ pc = "events"
    /\ event = Unknown
    /\ event_pos.running_status = 0
    /\ event_pos.pos < Len(data)
    /\ At(data, event_pos.pos) < 128
    /\ pos = event_pos.pos
    /\ pos < end_position /\ pos < Len(data)

(***************************************************************************)
(* Truncated track chunks                                                  *)
(***************************************************************************)
\* C18: once a valid 14-byte header is read, no read of the track parser is
\* out of the buffer: a buffer cut inside the "MTrk" tag, the length field, an
\* event or a meta-event payload gives a dropped track or a truncated event
\* list, never a crash.
C18_NoReadPastBuffer ==
    pos >= 14 => pc # "panic"

(***************************************************************************)
(* The noise shift register                                                *)
(***************************************************************************)
\* C19: from seed 1, after any number of steps in either mode the register
\* is in [1, 32767] (bit 15 is never set, the value is never 0), so that the
\* output never locks up at -1 (a +1 comes at least every 15 samples); in
\* long-period mode the register first returns to 1 after exactly 32767 steps.
C19_RegisterIsLfsrState ==
    pc = "noise" =>
        /\ shift \in 1..32767
        /\ Len(waveform) >= 15 =>
               \E k \in (Len(waveform) - 14)..Len(waveform) : waveform[k] = 1
        /\ (~Request.is_short /\ Len(waveform) \in 1..32767) =>
               (shift = 1 <=> Len(waveform) = 32767)

\* long-period mode, 16 steps from the seed: the bit fed back at the first
\* step has come out as the second +1
C19_Witness ==
    /\ pc = "noise"
    /\ ~Request.is_short
    /\ Len(waveform) = 16
    /\ shift = 24576
    /\ waveform[1] = 1 /\ waveform[15] = -1 /\ waveform[16] = 1

====
